---------------------------- MODULE Spec2Model ----------------------------
(***************************************************************************)
(* Model of callback-server.js: an Express endpoint that receives SOAP    *)
(* callbacks (notifyUpdated / newEvent), parses them with xml2js, logs a  *)
(* normalized view and answers with a fixed acknowledgement envelope.     *)
(*                                                                         *)
(* JavaScript values are tagged records, so that undefined, null, the     *)
(* empty string, strings, objects and arrays stay distinct and the        *)
(* truthiness tests of the code (!x, a || b, x?.y) can be translated      *)
(* literally.  A request body is a sequence of XML tokens, and the        *)
(* xml2js parser is modelled by its SAX callbacks under the options the   *)
(* code passes (explicitArray: false, ignoreAttrs: false, stripPrefix).   *)
(* Requests are posted as text/xml or application/soap+xml, so that        *)
(* req.body is the text of the body as bodyParser.text hands it over.     *)
(***************************************************************************)
EXTENDS Integers, Sequences, FiniteSets, Bags, TLC

(***************************************************************************)
(* JavaScript values                                                       *)
(***************************************************************************)
U == [t |-> "undefined"]
N == [t |-> "null"]
S(s) == [t |-> "string", s |-> s]
O(f) == [t |-> "object", f |-> f]
A(a) == [t |-> "array", a |-> a]

\* ToBoolean, for the kinds of value the program meets
Truthy(v) ==
  CASE v.t = "undefined" -> FALSE
    [] v.t = "null"      -> FALSE
    [] v.t = "string"    -> v.s # ""
    [] OTHER             -> TRUE

\* a || b
Or(a, b) == IF Truthy(a) THEN a ELSE b

\* reading v.k throws a TypeError exactly when v is undefined or null
Nullish(v) == v.t \in {"undefined", "null"}

\* v.k for a v that is not nullish: own keys of an object, undefined for
\* the keys of interest on a string or an array
Get(v, k) ==
  IF v.t = "object" /\ k \in DOMAIN v.f THEN v.f[k] ELSE U

\* v?.k
OptGet(v, k) == IF Nullish(v) THEN U ELSE Get(v, k)

isArray(v) == v.t = "array"

(***************************************************************************)
(* XML text, as tokens, and the xml2js parser                              *)
(***************************************************************************)
Open(p, n, attrs) == [k |-> "open", prefix |-> p, local |-> n, attrs |-> attrs]
Close(p, n) == [k |-> "close", prefix |-> p, local |-> n]
Text(s) == [k |-> "text", s |-> s]

\* <p:n attrs>content</p:n>
El(p, n, attrs, content) == <<Open(p, n, attrs)>> \o content \o <<Close(p, n)>>

\* the strings matched by /^\s*$/ among those the bodies are built from
BlankStrings == {"", " ", "  ", "   "}
IsBlank(s) == s \in BlankStrings

\* xml2js.processors.stripPrefix: the tag name without its namespace prefix
stripPrefix(tok) == tok.local

\* the value of obj[attrkey] for a tag's attributes (attribute names are not
\* processed: no attrNameProcessors are configured)
AttrValue(attrs, n) == attrs[CHOOSE i \in DOMAIN attrs : attrs[i][1] = n][2]
AttrObject(attrs) ==
  O([n \in {attrs[i][1] : i \in DOMAIN attrs} |-> S(AttrValue(attrs, n))])

\* saxParser.onopentag: a fresh object with an empty charkey "_", the
\* attributes under attrkey "$" (ignoreAttrs: false), and "#name" processed
\* by tagNameProcessors
onopentag(tok) ==
  [qname |-> <<tok.prefix, tok.local>>,
   name  |-> stripPrefix(tok),
   obj   |-> IF tok.attrs = <<>> THEN ("_" :> S(""))
             ELSE ("_" :> S("")) @@ ("$" :> AttrObject(tok.attrs))]

\* saxParser.ontext: the text is appended to the open element's charkey
ontext(frame, s) == [frame EXCEPT !.obj["_"] = S(@.s \o s)]

\* saxParser.onclosetag, the value of the closed element: blank text is
\* dropped, an element with text only collapses to the text, and an element
\* left with no key becomes the empty tag value (emptyTag '' gives the blank
\* text itself)
ClosedValue(obj) ==
  LET text == obj["_"].s
      rest == [k \in DOMAIN obj \ {"_"} |-> obj[k]]
  IN  IF DOMAIN obj = {"_"} THEN S(text)
      ELSE IF IsBlank(text) THEN O(rest)
      ELSE O(obj)

\* Parser.assignOrPush with explicitArray: false: the first child of a name
\* is stored bare, a second one turns the entry into an array
assignOrPush(obj, key, newValue) ==
  IF key \notin DOMAIN obj THEN obj @@ (key :> newValue)
  ELSE IF ~isArray(obj[key]) THEN [obj EXCEPT ![key] = A(<<@, newValue>>)]
  ELSE [obj EXCEPT ![key] = A(Append(@.a, newValue))]

Threw == [threw |-> TRUE]
Returned(v) == [threw |-> FALSE, result |-> v]

\* One step of the strict SAX parser.  st.stack holds the open elements,
\* st.root the result object once the root element has closed, st.failed
\* says that the parser has raised an error: text outside the root element
\* or a close tag that matches no open tag.  (The bodies modelled hold one
\* root element; a second one is treated as an error.)
SaxStep(st, tok) ==
  LET n == Len(st.stack)
      Failed == [st EXCEPT !.failed = TRUE]
  IN  CASE tok.k = "text" ->
             IF n = 0
             THEN IF IsBlank(tok.s) THEN st ELSE Failed
             ELSE [st EXCEPT !.stack[n] = ontext(@, tok.s)]
        [] tok.k = "open" ->
             IF n = 0 /\ st.root # U THEN Failed
             ELSE [st EXCEPT !.stack = Append(@, onopentag(tok))]
        [] tok.k = "close" ->
             IF n = 0 THEN Failed
             ELSE IF st.stack[n].qname # <<tok.prefix, tok.local>> THEN Failed
             ELSE
               LET v == ClosedValue(st.stack[n].obj)
                   nodeName == st.stack[n].name
               IN  IF n > 1
                   THEN [st EXCEPT !.stack =
                           [k \in 1..(n - 1) |->
                              IF k = n - 1
                              THEN [@[k] EXCEPT
                                      !.obj = assignOrPush(@, nodeName, v)]
                              ELSE @[k]]]
                   ELSE [st EXCEPT !.stack = <<>>, !.root = O(nodeName :> v)]

\* the parser state after the tokens lo..hi, from state st.  The range is
\* split in two so that the evaluation stays shallow.
RECURSIVE SaxRange(_, _, _, _)
SaxRange(toks, lo, hi, st) ==
  IF lo > hi THEN st
  ELSE IF lo = hi THEN (IF st.failed THEN st ELSE SaxStep(st, toks[lo]))
  ELSE LET half == SaxRange(toks, lo, (lo + hi) \div 2, st)
       IN  IF half.failed THEN half
           ELSE SaxRange(toks, (lo + hi) \div 2 + 1, hi, half)

\* the parser run over the whole text; at its end an element still open,
\* or no element at all, is an error
SaxRun(toks) ==
  LET st == SaxRange(toks, 1, Len(toks),
                     [failed |-> FALSE, stack |-> <<>>, root |-> U])
  IN  IF st.failed \/ st.stack # <<>> \/ st.root = U THEN Threw
      ELSE Returned(st.root)

\* the whole text is blank: str.trim() === ''
RECURSIVE AllBlank(_)
AllBlank(toks) ==
  toks = <<>> \/ (toks[1].k = "text" /\ IsBlank(toks[1].s) /\ AllBlank(Tail(toks)))

\* parser.parseStringPromise: a blank text resolves to null, a text that is
\* not well formed rejects, any other resolves to { rootName: tree }
parseStringPromise(xmlString) ==
  IF AllBlank(xmlString) THEN Returned(N)
  ELSE SaxRun(xmlString)

\* parseXML with its try/catch left out: the rejection of the parser is the
\* rejection of parseXML
parseXMLNoCatch(xmlString) == parseStringPromise(xmlString)

\* parseXML: the promise it returns.  The rejection of the parser is caught
\* and turned into null, so the promise always resolves.
parseXML(xmlString) ==
  LET r == parseStringPromise(xmlString)
  IN  IF r.threw THEN Returned(N) ELSE r

(***************************************************************************)
(* String conversion, as template literals and property keys need it       *)
(***************************************************************************)
\* Array.prototype.join(","): undefined and null elements give ""
RECURSIVE Join(_)
Join(a) ==
  IF a = <<>> THEN ""
  ELSE LET e == a[1]
           head == CASE e.t = "string" -> e.s
                     [] e.t = "object" -> "[object Object]"
                     [] OTHER -> ""
       IN  IF Len(a) = 1 THEN head ELSE head \o "," \o Join(Tail(a))

\* String(v)
ToStr(v) ==
  CASE v.t = "undefined" -> "undefined"
    [] v.t = "null"      -> "null"
    [] v.t = "string"    -> v.s
    [] v.t = "object"    -> "[object Object]"
    [] v.t = "array"     -> Join(v.a)

NA == S("N/A")

(***************************************************************************)
(* extractFirmwareStatus                                                   *)
(***************************************************************************)
\* status.attributes is an object with computed keys: the keys in insertion
\* order, each with its current value
HasKey(map, key) == \E i \in DOMAIN map : map[i][1] = key
Lookup(map, key) ==
  IF HasKey(map, key) THEN map[CHOOSE i \in DOMAIN map : map[i][1] = key][2]
  ELSE U
\* map[key] = value
Put(map, key, value) ==
  IF HasKey(map, key)
  THEN [i \in DOMAIN map |-> IF map[i][1] = key THEN <<key, value>> ELSE map[i]]
  ELSE Append(map, <<key, value>>)

\* const name = attr.name || attr.Name || attr.NAME
AttrName(attr) == Or(Or(Get(attr, "name"), Get(attr, "Name")), Get(attr, "NAME"))
\* const value = attr.value || attr.Value || attr.VALUE
AttrValueOf(attr) == Or(Or(Get(attr, "value"), Get(attr, "Value")), Get(attr, "VALUE"))

\* attrs.forEach(attr => { ...; if (name) status.attributes[name] = value })
\* over the entries from position i on; it throws when an entry is nullish
RECURSIVE ForEachAttr(_, _, _)
ForEachAttr(attrs, i, map) ==
  IF i > Len(attrs) THEN [threw |-> FALSE, map |-> map]
  ELSE IF Nullish(attrs[i]) THEN [threw |-> TRUE, map |-> map]
  ELSE LET name == AttrName(attrs[i])
           value == AttrValueOf(attrs[i])
       IN  ForEachAttr(attrs, i + 1,
             IF Truthy(name) THEN Put(map, ToStr(name), value) ELSE map)

\* the coercion left out for a single entry: only a sequence is walked
CoerceAttrsDropsBare(attrs) == IF isArray(attrs) THEN attrs.a ELSE <<>>

\* if (!Array.isArray(attrs)) attrs = [attrs]
CoerceAttrs(attrs) == IF isArray(attrs) THEN attrs.a ELSE <<attrs>>

\* lines 43-58: the attributes of an access point that is truthy
ExtractAttributes(accessPoint) ==
  LET apa == Get(accessPoint, "accessPointAttributes")
  IN  IF Truthy(apa) /\ Truthy(Get(apa, "attributes"))
      THEN ForEachAttr(CoerceAttrs(Get(apa, "attributes")), 1, <<>>)
      ELSE [threw |-> FALSE, map |-> <<>>]

\* extractFirmwareStatus(accessPoint): null, the status record, or Threw
extractFirmwareStatus(accessPoint) ==
  IF ~Truthy(accessPoint) THEN N
  ELSE
    LET attributes == ExtractAttributes(accessPoint)
    IN  IF attributes.threw THEN Threw
        ELSE [t |-> "status",
              accessPointId |-> Or(Get(accessPoint, "id"), NA),
              serialNumber |-> Or(Get(accessPoint, "serialNumber"), NA),
              online |-> Or(Get(accessPoint, "online"), NA),
              syncStatus |-> Or(Get(accessPoint, "syncStatus"), NA),
              firmwareUpgradeStatus |->
                Or(Get(accessPoint, "firmwareUpgradeStatus"), NA),
              timeOfLastFirmwareUpgrade |->
                Or(Get(accessPoint, "timeOfLastFirmwareUpgrade"), NA),
              attributes |-> attributes.map]

(***************************************************************************)
(* logCallback: the lines written to the console.  Colours and the time    *)
(* stamp of the header are left out; every interpolated value is rendered  *)
(* as the template literal renders it.                                     *)
(***************************************************************************)
firmwareAttrs ==
  <<"FIRMWARE_VERSION", "FIRMWARE_VERSION_INPROGRESS",
    "FIRMWARE_UPLOAD_PERCENTAGE", "CC_FIRMWARE_VERSION",
    "CC_FIRMWARE_VERSION_INPROGRESS", "CC_FIRMWARE_UPLOAD_PERCENTAGE">>

IsFirmwareAttr(key) == \E i \in DOMAIN firmwareAttrs : firmwareAttrs[i] = key

\* firmwareAttrs.forEach(key => { if (status.attributes[key]) ... })
RECURSIVE FirmwareLines(_, _)
FirmwareLines(map, i) ==
  IF i > Len(firmwareAttrs) THEN <<>>
  ELSE (IF Truthy(Lookup(map, firmwareAttrs[i]))
        THEN << <<"firmware", firmwareAttrs[i],
                  ToStr(Lookup(map, firmwareAttrs[i]))>> >>
        ELSE <<>>) \o FirmwareLines(map, i + 1)

\* Object.keys(status.attributes).forEach(key => { if (!includes(key)) ... })
RECURSIVE OtherLines(_, _)
OtherLines(map, i) ==
  IF i > Len(map) THEN <<>>
  ELSE (IF ~IsFirmwareAttr(map[i][1])
        THEN << <<"attribute", map[i][1], ToStr(map[i][2])>> >>
        ELSE <<>>) \o OtherLines(map, i + 1)

\* lines 73-108, for the status that extractFirmwareStatus returned (or
\* Threw, when it threw); reading a field of a null status throws
LogStatus(status) ==
  IF status = Threw \/ Nullish(status)
  THEN [threw |-> TRUE, lines |-> <<>>]
  ELSE [threw |-> FALSE,
        lines |->
          << <<"ID", ToStr(status.accessPointId)>>,
             <<"Serial", ToStr(status.serialNumber)>>,
             <<"Online", ToStr(status.online)>>,
             <<"Sync Status", ToStr(status.syncStatus)>>,
             <<"Upgrade Status", ToStr(status.firmwareUpgradeStatus)>>,
             <<"Last Update", ToStr(status.timeOfLastFirmwareUpgrade)>> >>
          \o (IF Len(status.attributes) > 0
              THEN << <<"Attributes:">> >>
                   \o FirmwareLines(status.attributes, 1)
                   \o OtherLines(status.attributes, 1)
              ELSE <<>>)]

\* the notifyUpdated branch
LogNotifyUpdated(data) == LogStatus(extractFirmwareStatus(data))

\* if (!Array.isArray(logData)) logData = [logData]
CoerceLogData(logData) == IF isArray(logData) THEN logData.a ELSE <<logData>>

\* logData.forEach(item => console.log(item.key || 'N/A', item.value || 'N/A'))
RECURSIVE ForEachLogData(_, _)
ForEachLogData(logData, i) ==
  IF i > Len(logData) THEN [threw |-> FALSE, lines |-> <<>>]
  ELSE IF Nullish(logData[i]) THEN [threw |-> TRUE, lines |-> <<>>]
  ELSE LET rest == ForEachLogData(logData, i + 1)
       IN  [threw |-> rest.threw,
            lines |-> << <<"logData",
                           ToStr(Or(Get(logData[i], "key"), NA)),
                           ToStr(Or(Get(logData[i], "value"), NA))>> >>
                      \o rest.lines]

\* the newEvent branch; data.origin throws when data is nullish
LogNewEvent(data) ==
  IF Nullish(data) THEN [threw |-> TRUE, lines |-> <<>>]
  ELSE
    LET head ==
          << <<"Origin",
               ToStr(Or(OptGet(Get(data, "origin"), "logOriginType"), NA))>>,
             <<"Family", ToStr(Or(Get(data, "family"), NA))>>,
             <<"Code", ToStr(Or(Get(data, "code"), NA))>>,
             <<"Timestamp", ToStr(Or(Get(data, "timeStamp"), NA))>> >>
    IN  IF Truthy(Get(data, "logData"))
        THEN LET items == ForEachLogData(CoerceLogData(Get(data, "logData")), 1)
             IN  [threw |-> items.threw,
                  lines |-> head \o << <<"Log Data:">> >> \o items.lines]
        ELSE [threw |-> FALSE, lines |-> head]

\* the header before the branch taken and the footer after it
Framed(type, branch) ==
  [threw |-> branch.threw,
   lines |-> << <<"header", type>> >> \o branch.lines
             \o (IF branch.threw THEN <<>> ELSE << <<"footer">> >>),
   calls |-> IF type = "notifyUpdated"
             THEN <<"logCallback", "extractFirmwareStatus">>
             ELSE <<"logCallback">>]

\* logCallback(type, data): whether it threw, the lines written before it
\* returned or threw, and the extraction functions it called
logCallback(type, data) ==
  Framed(type, CASE type = "notifyUpdated" -> LogNotifyUpdated(data)
                 [] type = "newEvent" -> LogNewEvent(data)
                 [] OTHER -> [threw |-> FALSE, lines |-> <<>>])

(***************************************************************************)
(* Request bodies the sender may post                                      *)
(***************************************************************************)
SoapNs == << <<"xmlns:soap", "http://www.w3.org/2003/05/soap-envelope">> >>
DsrNs == << <<"xmlns:ns", "http://xml.assaabloy.com/dsr/2.0">> >>

Envelope(content) == El("soap", "Envelope", SoapNs, content)
SoapBody(content) == El("soap", "Body", <<>>, content)
\* <n>text</n> and <n/>
Leaf(n, text) == El("", n, <<>>, <<Text(text)>>)
Empty(n) == El("", n, <<>>, <<>>)
Attribute(nk, n, vk, v) == El("", "attributes", <<>>, Leaf(nk, n) \o Leaf(vk, v))
LogData(k, v) == El("", "logData", <<>>, Leaf("key", k) \o Leaf("value", v))

FullAccessPoint(attributes) ==
  El("", "accessPoint", <<>>,
     Leaf("id", "AP-100") \o Leaf("serialNumber", "SN-1") \o Leaf("online", "true")
     \o Leaf("syncStatus", "SYNCED") \o Leaf("firmwareUpgradeStatus", "IN_PROGRESS")
     \o Leaf("timeOfLastFirmwareUpgrade", "2024-01-01T00:00:00Z")
     \o El("", "accessPointAttributes", <<>>, attributes))

FullLogEntry(logData) ==
  El("", "logEntry", <<>>,
     El("", "origin", <<>>, Leaf("logOriginType", "ACCESS_POINT"))
     \o Leaf("family", "ALARM") \o Leaf("code", "42")
     \o Leaf("timeStamp", "2024-01-01T00:00:00Z") \o logData)

\* the texts, each under a name; a request carries the name of its text
BodyTexts ==
  [ \* malformed: an unclosed tag, a close tag that matches no open tag,
    \* no XML at all
    unclosedTag |-> <<Open("soap", "Envelope", SoapNs), Open("soap", "Body", <<>>)>>,
    strayCloseTag |-> <<Open("soap", "Envelope", SoapNs), Close("soap", "Body")>>,
    notXml |-> <<Text("hello")>>,
    \* an empty text
    blank |-> <<>>,
    \* no Envelope, no Body, an empty Body, an operation not known
    noEnvelope |-> Empty("ping"),
    noBody |-> Envelope(Empty("Header")),
    emptyBody |-> Envelope(SoapBody(<<>>)),
    unknownOperation |-> Envelope(SoapBody(El("ns", "ping", DsrNs, <<>>))),
    \* <ns:notifyUpdated/>, with no attribute of its own
    notifyUpdatedEmpty |->
      Envelope(SoapBody(El("ns", "notifyUpdated", <<>>, <<>>))),
    \* <ns:notifyUpdated xmlns:ns="..."/>
    notifyUpdatedNoAccessPoint |->
      Envelope(SoapBody(El("ns", "notifyUpdated", DsrNs, <<>>))),
    \* <accessPoint/>
    accessPointEmpty |->
      Envelope(SoapBody(El("ns", "notifyUpdated", DsrNs, Empty("accessPoint")))),
    \* an id and one attribute
    accessPointIdAndAttribute |->
      Envelope(SoapBody(El("ns", "notifyUpdated", DsrNs,
        El("", "accessPoint", <<>>,
           Leaf("id", "AP-100")
           \o El("", "accessPointAttributes", <<>>,
                 Attribute("Name", "FIRMWARE_VERSION", "Value", "2.1.0")))))),
    \* every field, and two attributes
    accessPointFull |->
      Envelope(SoapBody(El("ns", "notifyUpdated", DsrNs,
        FullAccessPoint(Attribute("name", "FIRMWARE_VERSION", "value", "2.1.0")
                        \o Attribute("NAME", "BATTERY", "VALUE", "80"))))),
    \* notifyUpdated and newEvent together
    notifyUpdatedAndNewEvent |->
      Envelope(SoapBody(
        El("ns", "notifyUpdated", DsrNs, FullAccessPoint(<<>>))
        \o El("ns", "newEvent", DsrNs, FullLogEntry(<<>>)))),
    \* an empty notifyUpdated beside a newEvent
    emptyNotifyUpdatedAndNewEvent |->
      Envelope(SoapBody(
        El("ns", "notifyUpdated", <<>>, <<>>)
        \o El("ns", "newEvent", DsrNs, FullLogEntry(<<>>)))),
    \* <ns:newEvent/>, with no attribute of its own
    newEventEmpty |-> Envelope(SoapBody(El("ns", "newEvent", <<>>, <<>>))),
    \* <ns:newEvent xmlns:ns="..."/>
    newEventNoLogEntry |-> Envelope(SoapBody(El("ns", "newEvent", DsrNs, <<>>))),
    \* <logEntry/>
    logEntryEmpty |->
      Envelope(SoapBody(El("ns", "newEvent", DsrNs, Empty("logEntry")))),
    \* a code only: no origin, no logData
    logEntryCodeOnly |->
      Envelope(SoapBody(El("ns", "newEvent", DsrNs,
        El("", "logEntry", <<>>, Leaf("code", "42"))))),
    \* every field, with one logData and with two
    logEntryOneLogData |->
      Envelope(SoapBody(El("ns", "newEvent", DsrNs,
        FullLogEntry(LogData("door", "open"))))),
    logEntryTwoLogData |->
      Envelope(SoapBody(El("ns", "newEvent", DsrNs,
        FullLogEntry(LogData("door", "open") \o LogData("user", "7"))))),
    \* white space between the elements
    logEntryIndented |->
      <<Text(" ")>>
      \o Envelope(<<Text(" ")>>
           \o SoapBody(<<Text(" ")>>
                \o El("ns", "newEvent", DsrNs,
                      <<Text(" ")>> \o FullLogEntry(<<Text(" ")>>) \o <<Text(" ")>>)
                \o <<Text(" ")>>)
           \o <<Text(" ")>>) ]

Bodies == DOMAIN BodyTexts

\* POST to any path; a SOAPAction header may name any operation
Metas ==
  { [path |-> "/", headers |-> O([host |-> S("callback.example")])],
    [path |-> "/dsr/callback",
     headers |-> O([host |-> S("callback.example"), soapaction |-> S("newEvent")])] }

Requests ==
  { [path |-> m.path, headers |-> m.headers, body |-> b] : m \in Metas, b \in Bodies }

(***************************************************************************)
(* The POST handler                                                        *)
(***************************************************************************)
notifyUpdatedResponse ==
  "<?xml version=\"1.0\" encoding=\"UTF-8\"?>\n<soap:Envelope xmlns:soap=\"http://www.w3.org/2003/05/soap-envelope\">\n  <soap:Body>\n    <ns:notifyUpdatedResponse xmlns:ns=\"http://xml.assaabloy.com/dsr/2.0\"/>\n  </soap:Body>\n</soap:Envelope>"
newEventResponse ==
  "<?xml version=\"1.0\" encoding=\"UTF-8\"?>\n<soap:Envelope xmlns:soap=\"http://www.w3.org/2003/05/soap-envelope\">\n  <soap:Body>\n    <ns:newEventResponse xmlns:ns=\"http://xml.assaabloy.com/dsr/2.0\"/>\n  </soap:Body>\n</soap:Envelope>"
emptyBodyResponse ==
  "<?xml version=\"1.0\" encoding=\"UTF-8\"?>\n<soap:Envelope xmlns:soap=\"http://www.w3.org/2003/05/soap-envelope\">\n  <soap:Body/>\n</soap:Envelope>"

SoapContentType == "application/soap+xml; charset=utf-8"
\* the handler sets no Content-Type on its 400 and 500 answers
NoContentType == "(not set by the handler)"

Response(status, contentType, body) ==
  [status |-> status, contentType |-> contentType, body |-> body]

\* req.headers['action'] || req.headers['soapaction'] || 'unknown'
soapAction(req) ==
  Or(Or(Get(req.headers, "action"), Get(req.headers, "soapaction")), S("unknown"))

\* the handler up to its await: two log lines, and the call of parseXML
\* whose result the handler waits for
HandlerStart(req) ==
  [req     |-> req,
   out     |-> << <<"Received request to", req.path>>,
                  <<"SOAPAction", ToStr(soapAction(req))>> >>,
   promise |-> parseXML(BodyTexts[req.body])]

\* const body = parsed.Envelope?.Body
BodyOf(parsed) == OptGet(Get(parsed, "Envelope"), "Body")

\* what the try block comes to after logCallback: the acknowledgement is
\* sent (lines 191-192) unless logCallback threw
Acknowledge(log, responseEnvelope) ==
  [threw |-> log.threw,
   res   |-> IF log.threw THEN <<>>
             ELSE <<Response(200, SoapContentType, responseEnvelope)>>,
   out   |-> log.lines,
   calls |-> log.calls]

\* the dispatch with body.notifyUpdated and body.newEvent read without ?.:
\* a tree without Envelope or Body throws
DispatchNoOptionalChaining(body) ==
  IF Nullish(body)
  THEN [threw |-> TRUE, res |-> <<>>, out |-> <<>>, calls |-> <<>>]
  ELSE IF Truthy(Get(body, "notifyUpdated"))
  THEN Acknowledge(
         logCallback("notifyUpdated",
                     Get(Get(body, "notifyUpdated"), "accessPoint")),
         notifyUpdatedResponse)
  ELSE IF Truthy(Get(body, "newEvent"))
  THEN Acknowledge(
         logCallback("newEvent", Get(Get(body, "newEvent"), "logEntry")),
         newEventResponse)
  ELSE [threw |-> FALSE,
        res   |-> <<Response(200, SoapContentType, emptyBodyResponse)>>,
        out   |-> << <<"Unknown callback type">> >>,
        calls |-> <<>>]

\* lines 149-192: the dispatch on the parsed tree, the call of logCallback
\* and the choice of the acknowledgement
Dispatch(body) ==
  IF Truthy(OptGet(body, "notifyUpdated"))
  THEN Acknowledge(
         logCallback("notifyUpdated",
                     Get(Get(body, "notifyUpdated"), "accessPoint")),
         notifyUpdatedResponse)
  ELSE IF Truthy(OptGet(body, "newEvent"))
  THEN Acknowledge(
         logCallback("newEvent", Get(Get(body, "newEvent"), "logEntry")),
         newEventResponse)
  ELSE [threw |-> FALSE,
        res   |-> <<Response(200, SoapContentType, emptyBodyResponse)>>,
        out   |-> << <<"Unknown callback type">> >>,
        calls |-> <<>>]

\* the dispatch taken from the SOAPAction header when it names newEvent
RespondByAction(req, parsed) ==
  IF soapAction(req) = S("newEvent")
  THEN Acknowledge(
         logCallback("newEvent",
                     OptGet(OptGet(BodyOf(parsed), "newEvent"), "logEntry")),
         newEventResponse)
  ELSE Dispatch(BodyOf(parsed))

\* the handler after its 400 exit; req is read before the await only
RespondParsed(req, parsed) == Dispatch(BodyOf(parsed))

\* the rest of the try block, once the promise of parseXML has settled: a
\* rejection is rethrown by the await, a falsy result is answered with 400
TryBlock(h) ==
  IF h.promise.threw
  THEN [threw |-> TRUE, res |-> <<>>, out |-> <<>>, calls |-> <<>>]
  ELSE IF ~Truthy(h.promise.result)
  THEN [threw |-> FALSE,
        res   |-> <<Response(400, NoContentType, "Invalid SOAP")>>,
        out   |-> << <<"Failed to parse SOAP envelope">> >>,
        calls |-> <<>>]
  ELSE RespondParsed(h.req, h.promise.result)

\* the handler without its catch: an exception leaves it, no response is
\* sent and the promise of the handler rejects
ExchangeNoCatch(h, t) ==
  [path     |-> h.req.path,
   body     |-> h.req.body,
   res      |-> t.res,
   out      |-> h.out \o t.out,
   calls    |-> <<"parseXML">> \o t.calls,
   caught   |-> FALSE,
   rejected |-> t.threw]

\* the finished exchange of handler h whose try block came to t: the path
\* and the body received, the responses sent, the console lines, the functions called,
\* whether the catch ran, and whether an exception left the handler (a
\* rejected promise nobody handles).  The catch answers 500.
Exchange(h, t) ==
  [path     |-> h.req.path,
   body     |-> h.req.body,
   res      |-> IF t.threw
                THEN t.res \o <<Response(500, NoContentType,
                                         "Internal Server Error")>>
                ELSE t.res,
   out      |-> h.out \o t.out
                \o (IF t.threw THEN << <<"Error processing callback">> >>
                    ELSE <<>>),
   calls    |-> <<"parseXML">> \o t.calls,
   caught   |-> t.threw,
   rejected |-> FALSE]

\* the handler from its await to its end: the try block and its catch
HandlerResume(h) == Exchange(h, TryBlock(h))

(***************************************************************************)
(* Arguments for the extraction functions called on their own: the shapes  *)
(* the parser produces for an accessPoint and a logEntry, and the          *)
(* one-element sequences the functions also accept                         *)
(***************************************************************************)
\* the object with the given <<key, value>> fields, undefined ones left
\* out; like an element without content, an object without a field is ''
ObjOf(fields) ==
  LET keys == {fields[i][1] : i \in {j \in DOMAIN fields : fields[j][2] # U}}
  IN  IF keys = {} THEN S("")
      ELSE O([k \in keys |->
                fields[CHOOSE i \in DOMAIN fields : fields[i][1] = k][2]])

Scalars == {U, S(""), S("x")}
NameKeys == {"name", "Name", "NAME"}
ValueKeys == {"value", "Value", "VALUE"}

\* one <attributes> entry
AttributeEntries ==
  { ObjOf(<< <<nk, S("FIRMWARE_VERSION")>>, <<vk, v>> >>) :
      nk \in NameKeys, vk \in ValueKeys, v \in {S("2.1.0"), S("")} }
  \cup { ObjOf(<< <<"value", S("2.1.0")>> >>),
         ObjOf(<< <<"name", S("")>>, <<"Name", S("BATTERY")>>,
                  <<"value", S("")>>, <<"Value", S("80")>> >>),
         ObjOf(<< <<"name", S("A")>>, <<"NAME", S("B")>>,
                  <<"Value", S("1")>>, <<"VALUE", S("2")>> >>),
         S("text") }

AttributeShapes ==
  {U, S("")} \cup AttributeEntries
  \cup { A(<<e>>) : e \in AttributeEntries }
  \cup { A(<<e, ObjOf(<< <<"name", S("FIRMWARE_VERSION")>>,
                         <<"value", S("3.0.0")>> >>)>>) :
           e \in AttributeEntries }

AccessPoints ==
  {U, N, S(""), S("text")}
  \cup { ObjOf(<< <<"id", id>>, <<"serialNumber", rest>>, <<"online", rest>>,
                  <<"syncStatus", sync>>, <<"firmwareUpgradeStatus", rest>>,
                  <<"timeOfLastFirmwareUpgrade", rest>>,
                  <<"accessPointAttributes",
                    ObjOf(<< <<"attributes", attrs>> >>)>> >>) :
           id \in Scalars, sync \in Scalars, rest \in {U, S("y")},
           attrs \in AttributeShapes }

\* one <logData> entry
LogDataEntries ==
  { ObjOf(<< <<"key", k>>, <<"value", v>> >>) :
      k \in {U, S("door")}, v \in {S("open"), S("")} }
  \cup { S("text") }

LogDataShapes ==
  {U, S("")} \cup LogDataEntries
  \cup { A(<<e>>) : e \in LogDataEntries }
  \cup { A(<<e, ObjOf(<< <<"key", S("user")>>, <<"value", S("7")>> >>)>>) :
           e \in LogDataEntries }

LogEntries ==
  {U, S("")}
  \cup { ObjOf(<< <<"origin", origin>>, <<"family", rest>>, <<"code", code>>,
                  <<"timeStamp", rest>>, <<"logData", logData>> >>) :
           origin \in {U, S(""), ObjOf(<< <<"logOriginType", S("ACCESS_POINT")>> >>)},
           code \in Scalars, rest \in {U, S("y")},
           logData \in LogDataShapes }

(***************************************************************************)
(* The server                                                              *)
(***************************************************************************)
VARIABLES
  pending,      \* bag of the requests whose handlers are suspended at the await
  last,         \* the exchange finished last: <<>> or <<exchange>>
  rejections,   \* number of 'unhandledRejection' events so far
  fn, arg, ret  \* an extraction function called on its own, and its result

vars == <<pending, last, rejections, fn, arg, ret>>
server == <<pending, last, rejections>>
call == <<fn, arg, ret>>

\* handlers that may be suspended at the same time
MaxInFlight == 2

Init ==
  /\ pending = EmptyBag
  /\ last = <<>>
  /\ rejections = 0
  /\ fn = "none"
  /\ arg = U
  /\ ret = U

\* what the wire and the process see of a finished exchange; the console
\* lines are written and gone
Finished(x) ==
  [path |-> x.path, body |-> x.body, res |-> x.res, calls |-> x.calls,
   caught |-> x.caught, rejected |-> x.rejected]

\* the exchange each request ends in
Exchanges == [req \in Requests |-> Finished(HandlerResume(HandlerStart(req)))]

\* app.post('*'): a request arrives and its handler runs up to the await.
\* What the suspended handler holds (HandlerStart) is a function of its
\* request, so the request stands for it.
Receive(req) ==
  /\ BagCardinality(pending) < MaxInFlight
  /\ pending' = pending (+) SetToBag({req})
  /\ UNCHANGED <<last, rejections, call>>

\* the await of a suspended handler returns and the handler runs to its
\* end; an exception that leaves it is reported as an unhandled rejection,
\* which is logged and nothing else.  Any suspended handler may be the next
\* to resume: the order of the microtask queue is one of these orders.
Resume(req) ==
  /\ BagIn(req, pending)
  /\ LET x == Exchanges[req]
     IN  /\ last' = <<x>>
         /\ rejections' = IF x.rejected THEN rejections + 1 ELSE rejections
  /\ pending' = pending (-) SetToBag({req})
  /\ UNCHANGED call

Next ==
  \/ \E req \in Requests : Receive(req)
  \/ \E req \in Requests : Resume(req)

Spec == Init /\ [][Next]_vars

(***************************************************************************)
(* The extraction functions, called on their own                           *)
(***************************************************************************)
CallExtractFirmwareStatus(accessPoint) ==
  /\ fn = "none"
  /\ fn' = "extractFirmwareStatus"
  /\ arg' = accessPoint
  /\ ret' = extractFirmwareStatus(accessPoint)
  /\ UNCHANGED server

CallLogNotifyUpdated(accessPoint) ==
  /\ fn = "none"
  /\ fn' = "logCallback:notifyUpdated"
  /\ arg' = accessPoint
  /\ ret' = logCallback("notifyUpdated", accessPoint)
  /\ UNCHANGED server

CallLogNewEvent(logEntry) ==
  /\ fn = "none"
  /\ fn' = "logCallback:newEvent"
  /\ arg' = logEntry
  /\ ret' = logCallback("newEvent", logEntry)
  /\ UNCHANGED server

NextExtract ==
  \/ \E accessPoint \in AccessPoints : CallExtractFirmwareStatus(accessPoint)
  \/ \E accessPoint \in AccessPoints : CallLogNotifyUpdated(accessPoint)
  \/ \E logEntry \in LogEntries : CallLogNewEvent(logEntry)

SpecExtract == Init /\ [][NextExtract]_vars

(***************************************************************************)
(* Properties of the server                                                *)
(***************************************************************************)
\* what parseXML resolves to for each body
Trees == [b \in Bodies |-> parseXML(BodyTexts[b]).result]

\* whether the parser rejects each body
ParserRejects == [b \in Bodies |-> parseStringPromise(BodyTexts[b]).threw]

\* the parser rejects the body, and parseXML catches the rejection
ParseFails(b) == ParserRejects[b]

\* the body parses: parseXML returns a tree
Parseable(b) == Truthy(Trees[b])

\* the element v has a child element named k, whatever its content
HasChild(v, k) == v.t = "object" /\ k \in DOMAIN v.f

\* the soap:Body of a parseable body has a child named k
BodyHasChild(b, k) == HasChild(BodyOf(Trees[b]), k)

\* an exchange has finished; LastExchange is that exchange
Answered == last # <<>>
LastExchange == last[1]

\* the one response HTTP 200 with the acknowledgement envelope e
Acknowledged(e) == <<Response(200, SoapContentType, e)>>

\* C1: every request whose body parses is answered HTTP 200 with one of
\* the three acknowledgement envelopes, whatever the shape of the tree;
\* never 400 or 500
C1_ParseableIsAcknowledged ==
  Answered /\ Parseable(LastExchange.body)
    => \E e \in {notifyUpdatedResponse, newEventResponse, emptyBodyResponse} :
         LastExchange.res = Acknowledged(e)

\* C2: every parsed envelope whose Body has a notifyUpdated child is
\* answered HTTP 200 with the notifyUpdatedResponse envelope, whether the
\* element is empty, has an accessPoint, or stands beside a newEvent
C2_NotifyUpdatedIsAcknowledged ==
  Answered /\ Parseable(LastExchange.body)
           /\ BodyHasChild(LastExchange.body, "notifyUpdated")
    => LastExchange.res = Acknowledged(notifyUpdatedResponse)

\* C3: every parsed envelope whose Body has a newEvent child and no
\* notifyUpdated child is answered HTTP 200 with the newEventResponse
\* envelope, whatever logEntry, origin and logData are
C3_NewEventIsAcknowledged ==
  Answered /\ Parseable(LastExchange.body)
           /\ BodyHasChild(LastExchange.body, "newEvent")
           /\ ~BodyHasChild(LastExchange.body, "notifyUpdated")
    => LastExchange.res = Acknowledged(newEventResponse)

\* the tree of body b has neither operation under its Body, or no Body
NeitherOperation(b) ==
  /\ Parseable(b)
  /\ ~BodyHasChild(b, "notifyUpdated")
  /\ ~BodyHasChild(b, "newEvent")

\* C4: every parsed envelope whose Body has neither a notifyUpdated nor a
\* newEvent child, a tree without Envelope or Body included, is answered
\* HTTP 200 with the empty soap:Body envelope, and neither logCallback nor
\* extractFirmwareStatus is called
C4_UnrecognizedIsAcknowledged ==
  Answered /\ NeitherOperation(LastExchange.body)
    => /\ LastExchange.res = Acknowledged(emptyBodyResponse)
       /\ LastExchange.calls = <<"parseXML">>

\* an envelope without Body, and a tree without Envelope, have been answered
C4_Witness ==
  /\ Answered
  /\ NeitherOperation(LastExchange.body)
  /\ ~HasChild(Trees[LastExchange.body], "Envelope")
  /\ LastExchange.res = Acknowledged(emptyBodyResponse)

\* C5: when the parser rejects the body, the handler answers HTTP 400 with
\* the plain text "Invalid SOAP" and no SOAP content type; it calls neither
\* logCallback nor extractFirmwareStatus, builds no envelope, and its
\* catch does not run (no 500)
C5_ParseFailureIs400 ==
  Answered /\ ParseFails(LastExchange.body)
    => /\ LastExchange.res = <<Response(400, NoContentType, "Invalid SOAP")>>
       /\ LastExchange.calls = <<"parseXML">>
       /\ ~LastExchange.caught
       /\ ~LastExchange.rejected

\* a body with an unclosed tag has been answered 400
C5_Witness ==
  /\ Answered
  /\ LastExchange.body = "unclosedTag"
  /\ ParseFails(LastExchange.body)
  /\ LastExchange.res[1].status = 400

\* C6: every handler that has run to its end has sent exactly one response,
\* with status 200, 400 or 500; when handling threw, that response is 500
\* with the plain text "Internal Server Error"; no exception leaves a
\* handler, so no rejection ever reaches the process; and the server is
\* never stuck: every suspended handler can resume, and a request can be
\* received whenever fewer than MaxInFlight handlers are suspended
C6_OneResponseAndProcessSurvives ==
  /\ Answered =>
       /\ Len(LastExchange.res) = 1
       /\ LastExchange.res[1].status \in {200, 400, 500}
       /\ LastExchange.caught =>
            LastExchange.res =
              <<Response(500, NoContentType, "Internal Server Error")>>
       /\ ~LastExchange.rejected
  /\ rejections = 0
  /\ \A req \in Requests : BagIn(req, pending) => ENABLED Resume(req)
  /\ BagCardinality(pending) < MaxInFlight
       => \A req \in Requests : ENABLED Receive(req)

\* handling has thrown and was answered 500, and the server goes on: the
\* next handlers are already suspended behind it
C6_Witness ==
  /\ Answered
  /\ LastExchange.caught
  /\ LastExchange.res[1].status = 500
  /\ BagCardinality(pending) = MaxInFlight

\* C7: the response of a handler that resumes is the response given to the
\* last finished request with the same body, whatever the two paths and
\* SOAPAction headers, whatever was answered in between and whichever
\* other handlers are suspended; and it is the response the handler gives
\* to that body on its own
C7_ResponseDependsOnBodyOnly ==
  [][\A req \in BagToSet(pending) :
       Resume(req) =>
         /\ Answered /\ LastExchange.body = req.body
              => last'[1].res = LastExchange.res
         /\ \A m \in Metas :
              last'[1].res =
                Exchanges[[path |-> m.path, headers |-> m.headers,
                           body |-> req.body]].res]_vars

\* a body posted to "/" without SOAPAction has been answered, and a handler
\* for the same body posted to another path with a SOAPAction header is
\* suspended beside a handler for another body
C7_Witness ==
  /\ Answered
  /\ LastExchange.path = "/"
  /\ LastExchange.body = "accessPointFull"
  /\ \E req \in Requests :
       /\ BagIn(req, pending)
       /\ req.body = LastExchange.body
       /\ req.path # LastExchange.path
       /\ soapAction(req) = S("newEvent")
  /\ \E req \in Requests : BagIn(req, pending) /\ req.body # LastExchange.body

(***************************************************************************)
(* Properties of the extraction functions                                  *)
(***************************************************************************)
\* accessPoint.accessPointAttributes.attributes, undefined without the path
AttributesOf(accessPoint) ==
  OptGet(OptGet(accessPoint, "accessPointAttributes"), "attributes")

\* exactly one entry, supplied bare: an element with content, not a sequence
OneBare(v) == Truthy(v) /\ ~isArray(v)

\* the first defined value among the keys, in their order
RECURSIVE FirstDefined(_, _)
FirstDefined(attr, keys) ==
  IF keys = <<>> THEN U
  ELSE IF Get(attr, keys[1]) # U THEN Get(attr, keys[1])
  ELSE FirstDefined(attr, Tail(keys))

\* C8: a single entry normalizes to the mapping from the first defined of
\* name, Name, NAME to the first defined of value, Value, VALUE, so that an
\* entry keyed with any one case variant gives the same one mapping as the
\* entry keyed name/value; an entry without a name gives no mapping.  (An
\* entry whose first defined name is the empty text is left open.)
C8_FirstDefinedNameAndValue ==
  fn = "extractFirmwareStatus" /\ OneBare(AttributesOf(arg))
                               /\ AttributesOf(arg).t = "object"
    => LET attr == AttributesOf(arg)
           name == FirstDefined(attr, <<"name", "Name", "NAME">>)
           value == FirstDefined(attr, <<"value", "Value", "VALUE">>)
       IN  /\ ret # Threw
           /\ ret # N
           /\ name = U => ret.attributes = <<>>
           /\ Truthy(name) => ret.attributes = << <<ToStr(name), value>> >>

\* C9: one entry supplied bare and the same entry supplied as a one-element
\* sequence give the same result and neither throws: the same status, with
\* at most one attribute, from extractFirmwareStatus, and the same lines,
\* with one log-data pair, from the newEvent branch of logCallback
C9_BareOrOneElementSequence ==
  /\ fn = "extractFirmwareStatus" /\ OneBare(AttributesOf(arg))
       => /\ ret # Threw
          /\ ret # N
          /\ Len(ret.attributes) <= 1
          /\ ret = extractFirmwareStatus(
                     O([arg.f EXCEPT !["accessPointAttributes"] =
                          O([attributes |-> A(<<AttributesOf(arg)>>)])]))
  /\ fn = "logCallback:newEvent" /\ OneBare(OptGet(arg, "logData"))
       => /\ ~ret.threw
          /\ Len(SelectSeq(ret.lines, LAMBDA l : l[1] = "logData")) = 1
          /\ ret = logCallback("newEvent",
                     O([arg.f EXCEPT !["logData"] = A(<<@>>)]))

\* extractFirmwareStatus has been given one attribute entry, bare, and has
\* returned the one mapping
C9_Witness ==
  /\ fn = "extractFirmwareStatus"
  /\ OneBare(AttributesOf(arg))
  /\ AttributesOf(arg).t = "object"
  /\ ret # Threw
  /\ ret # N
  /\ ret.attributes = << <<"FIRMWARE_VERSION", S("2.1.0")>> >>

\* the six scalar fields of the status record
ScalarFields ==
  << <<"accessPointId", "id">>, <<"serialNumber", "serialNumber">>,
     <<"online", "online">>, <<"syncStatus", "syncStatus">>,
     <<"firmwareUpgradeStatus", "firmwareUpgradeStatus">>,
     <<"timeOfLastFirmwareUpgrade", "timeOfLastFirmwareUpgrade">> >>

\* C10: for an accessPoint node that is present, extractFirmwareStatus
\* returns a record with all six scalar keys, each the source field when
\* that is present and not empty and "N/A" otherwise, and with an empty
\* attributes map when there is no accessPointAttributes.attributes; for an
\* absent accessPoint it returns null; it never throws
C10_PresentAccessPointGivesRecord ==
  fn = "extractFirmwareStatus"
    => /\ ret # Threw
       /\ IF Nullish(arg) THEN ret = N
          ELSE /\ ret # N
               /\ \A i \in DOMAIN ScalarFields :
                    ret[ScalarFields[i][1]] =
                      IF Truthy(Get(arg, ScalarFields[i][2]))
                      THEN Get(arg, ScalarFields[i][2]) ELSE NA
               /\ ~Truthy(AttributesOf(arg)) => ret.attributes = <<>>

====
